---- MODULE Spec2Model ----
(***************************************************************************)
(* A model of cvxpy's MOSEK conic interface (mosek_conif.py): apply builds *)
(* the stacked system (G, h) and the inverse data, solve_via_data declares *)
(* the native model inside a scoped solver session and runs the solve, and *)
(* invert decodes the native result.                                       *)
(*                                                                         *)
(* Indices are 0-based as in the source; a TLA+ sequence s holds the       *)
(* element of source index i at s[i + 1].                                  *)
(*                                                                         *)
(* The dictionaries `data` and `inv_data` are functions whose keys are the *)
(* names the source uses for them (s.C is the key "C", s.OBJ_OFFSET the    *)
(* key "OBJ_OFFSET", s.OFFSET the key "OFFSET"): two different names of    *)
(* cvxpy.settings are two different keys.                                  *)
(***************************************************************************)
EXTENDS Integers, Sequences, FiniteSets, TLC

VARIABLES
    problem,    \* the cvxpy problem handed to apply
    opts,       \* solver_opts, verbose of solve_via_data
    data,       \* the dict apply returns for the solver
    inv_data,   \* the inverse data apply returns
    pc,         \* position in apply / solve_via_data / invert
    session,    \* the mosek Env and Task context managers
    task,       \* the native model held by the Task
    pidx,       \* iteration index of _handle_mosek_params
    exc,        \* the exception in flight or raised
    result,     \* what solve_via_data returned
    solution,   \* what invert returned
    codec       \* state of the symmetric-matrix codec run

vars == <<problem, opts, data, inv_data, pc, session, task, pidx, exc, result,
          solution, codec>>

solveVars == <<problem, opts, data, inv_data, pc, session, task, pidx, exc,
               result, solution>>

(***************************************************************************)
(* Bounds of the model.                                                    *)
(***************************************************************************)
MaxCons == 2

MaxParams == 2

MaxDim == 3

None == "None"

(***************************************************************************)
(* Arithmetic on sequences.                                                *)
(***************************************************************************)
RECURSIVE Sum(_)
Sum(s) == IF s = <<>> THEN 0 ELSE Head(s) + Sum(Tail(s))

RECURSIVE Flatten(_)
Flatten(ss) == IF ss = <<>> THEN <<>> ELSE Head(ss) \o Flatten(Tail(ss))

Range(s) == {s[i] : i \in DOMAIN s}

Max(a, b) == IF a >= b THEN a ELSE b

Min(a, b) == IF a <= b THEN a ELSE b

\* [ci for ci in xs if P(ci)]
RECURSIVE Filter(_, _)
Filter(xs, kind) ==
    IF xs = <<>> THEN <<>>
    ELSE IF Head(xs).kind = kind
         THEN <<Head(xs)>> \o Filter(Tail(xs), kind)
         ELSE Filter(Tail(xs), kind)

(***************************************************************************)
(* The constraints of a problem.  A constraint has a cone kind, an id and  *)
(* its sizes: the length of a NonPos or Zero constraint, the cone sizes of *)
(* a SOC constraint, the number of cones of an ExpCone constraint, the     *)
(* dimension of a PSD constraint.                                          *)
(***************************************************************************)
Shapes ==
    [kind : {"NonPos", "Zero"}, sizes : {<<1>>, <<2>>}]
    \cup [kind : {"SOC"}, sizes : {<<2>>, <<3>>, <<3, 2>>}]
    \cup [kind : {"ExpCone"}, sizes : {<<1>>, <<2>>}]
    \cup [kind : {"PSD"}, sizes : {<<1>>, <<2>>}]

\* Constraint ids are unique and not ordered like the input list.
IdOf(k) == (7 * k + 3) % 11

WithIds(shapes) ==
    [k \in DOMAIN shapes |->
        [kind |-> shapes[k].kind, id |-> IdOf(k), sizes |-> shapes[k].sizes]]

EXP_CONE_ORDER == <<2, 1, 0>>

\* The number of rows format_constr / psd_coeff_offset give a constraint.
Size(con) ==
    CASE con.kind \in {"NonPos", "Zero"} -> con.sizes[1]
      [] con.kind = "SOC" -> Sum(con.sizes)
      [] con.kind = "ExpCone" -> 3 * con.sizes[1]
      [] con.kind = "PSD" -> con.sizes[1] * con.sizes[1]

\* A row of the stacked system: the constraint it comes from and its index
\* in the constraint's own affine expression.
Row(con, l) == [kind |-> con.kind, id |-> con.id, local |-> l]

\* format_constr: the offset rows of one constraint; the rows of an
\* exponential cone are reordered by exp_cone_order within each triple
\* (exp_cone_order=None is the empty sequence).
format_constr(con, exp_cone_order) ==
    [i \in 1..Size(con) |->
        IF exp_cone_order = <<>>
        THEN Row(con, i - 1)
        ELSE Row(con, 3 * ((i - 1) \div 3) + exp_cone_order[((i - 1) % 3) + 1])]

\* psd_coeff_offset: the dim*dim rows of a linear matrix inequality and dim.
psd_coeff_offset(con) ==
    [rows |-> [i \in 1..Size(con) |-> Row(con, i - 1)], dim |-> con.sizes[1]]

\* The columns in which the coefficient row of an affine expression is
\* nonzero: a sparsity pattern inside the n0 columns of the variable.
CoeffCols(row, n0) == {c \in 0..(n0 - 1) : (row.id + row.local + c) % 2 = 0}

\* reversed(s)
Reverse(s) == [k \in DOMAIN s |-> s[Len(s) + 1 - k]]

\* block_format stacking the blocks last constraint first.
block_format_reversed(constraints, exp_cone_order) ==
    IF constraints = <<>>
    THEN [none |-> TRUE, offset |-> <<>>, lengths |-> <<>>, ids |-> <<>>]
    ELSE LET offsets == [k \in DOMAIN constraints |->
                            format_constr(constraints[k], exp_cone_order)]
         IN  [none    |-> FALSE,
              offset  |-> Flatten(Reverse(offsets)),
              lengths |-> [k \in DOMAIN constraints |-> Len(offsets[k])],
              ids     |-> [k \in DOMAIN constraints |-> constraints[k].id]]

(***************************************************************************)
(* block_format                                                            *)
(***************************************************************************)
block_format(constraints, exp_cone_order) ==
    IF constraints = <<>>
    THEN [none |-> TRUE, offset |-> <<>>, lengths |-> <<>>, ids |-> <<>>]
    ELSE LET offsets == [k \in DOMAIN constraints |->
                            format_constr(constraints[k], exp_cone_order)]
         IN  [none    |-> FALSE,
              offset  |-> Flatten(offsets),
              lengths |-> [k \in DOMAIN constraints |-> Len(offsets[k])],
              ids     |-> [k \in DOMAIN constraints |-> constraints[k].id]]

\* [(ids[k], lengths[k]) for k in range(len(lengths))]
Slacks(blk) == [k \in DOMAIN blk.lengths |-> <<blk.ids[k], blk.lengths[k]>>]

(***************************************************************************)
(* apply: the data for the solver and the inverse data.  The blocks are    *)
(* appended to As / bs in the order of the source: linear inequalities,    *)
(* linear equations, second order cones, exponential cones, PSD.           *)
(***************************************************************************)
LeqBlock(p) == block_format(Filter(p.cons, "NonPos"), <<>>)

EqBlock(p) == block_format(Filter(p.cons, "Zero"), <<>>)

SocBlock(p) == block_format(Filter(p.cons, "SOC"), <<>>)

ExpBlock(p) == block_format(Filter(p.cons, "ExpCone"), EXP_CONE_ORDER)

PsdBlocks(p) ==
    LET psd_constr == Filter(p.cons, "PSD")
    IN  [k \in DOMAIN psd_constr |-> psd_coeff_offset(psd_constr[k])]

\* bs with the linear equations appended before the linear inequalities.
ApplyBsEqFirst(p) ==
    (IF Filter(p.cons, "Zero") # <<>> THEN <<EqBlock(p).offset>> ELSE <<>>)
    \o (IF Filter(p.cons, "NonPos") # <<>> THEN <<LeqBlock(p).offset>> ELSE <<>>)
    \o (IF Filter(p.cons, "SOC") # <<>> THEN <<SocBlock(p).offset>> ELSE <<>>)
    \o (IF Filter(p.cons, "ExpCone") # <<>> THEN <<ExpBlock(p).offset>> ELSE <<>>)
    \o [k \in DOMAIN PsdBlocks(p) |-> PsdBlocks(p)[k].rows]

\* bs after the five sections of apply, one entry per appended block.
ApplyBs(p) ==
    (IF Filter(p.cons, "NonPos") # <<>> THEN <<LeqBlock(p).offset>> ELSE <<>>)
    \o (IF Filter(p.cons, "Zero") # <<>> THEN <<EqBlock(p).offset>> ELSE <<>>)
    \o (IF Filter(p.cons, "SOC") # <<>> THEN <<SocBlock(p).offset>> ELSE <<>>)
    \o (IF Filter(p.cons, "ExpCone") # <<>> THEN <<ExpBlock(p).offset>> ELSE <<>>)
    \o [k \in DOMAIN PsdBlocks(p) |-> PsdBlocks(p)[k].rows]

\* sp.sparse.vstack / np.hstack of an empty tuple raise ValueError.
ApplyRaises(p) == ApplyBs(p) = <<>>

ApplyDims(p) ==
    LET soc_constr == Filter(p.cons, "SOC")
        psd_constr == Filter(p.cons, "PSD")
    IN  [q  |-> Flatten([k \in DOMAIN soc_constr |-> soc_constr[k].sizes]),
         ep |-> IF Filter(p.cons, "ExpCone") # <<>>
                THEN ExpBlock(p).lengths ELSE <<>>,
         s  |-> [k \in DOMAIN psd_constr |-> PsdBlocks(p)[k].dim],
         l  |-> IF Filter(p.cons, "NonPos") # <<>>
                THEN Sum(LeqBlock(p).lengths) ELSE 0,
         f  |-> IF Filter(p.cons, "Zero") # <<>>
                THEN Sum(EqBlock(p).lengths) ELSE 0]

ApplyData(p) ==
    LET h == Flatten(ApplyBs(p))
    IN  [C          |-> [i \in 1..p.n0 |-> i - 1],
         OBJ_OFFSET |-> p.offset,
         DIMS       |-> ApplyDims(p),
         G          |-> {<<r, c>> \in (0..(Len(h) - 1)) \X (0..(p.n0 - 1)) :
                            c \in CoeffCols(h[r + 1], p.n0)},
         H          |-> h,
         BOOL_IDX   |-> p.bool_idx,
         INT_IDX    |-> p.int_idx]

ApplyInvData(p) ==
    LET psd_constr == Filter(p.cons, "PSD")
    IN  [VAR_ID     |-> "x",
         suc_slacks |-> IF Filter(p.cons, "NonPos") # <<>>
                        THEN Slacks(LeqBlock(p)) ELSE <<>>,
         y_slacks   |-> IF Filter(p.cons, "Zero") # <<>>
                        THEN Slacks(EqBlock(p)) ELSE <<>>,
         snx_slacks |-> (IF Filter(p.cons, "SOC") # <<>>
                         THEN Slacks(SocBlock(p)) ELSE <<>>)
                        \o (IF Filter(p.cons, "ExpCone") # <<>>
                            THEN Slacks(ExpBlock(p)) ELSE <<>>),
         psd_dims   |-> [k \in DOMAIN psd_constr |->
                            <<psd_constr[k].id, PsdBlocks(p)[k].dim>>],
         integer_variables |-> Len(p.bool_idx) + Len(p.int_idx) > 0,
         n0         |-> p.n0,
         OBJ_OFFSET |-> p.offset]

NoData == [C |-> <<>>]

NoInvData == [n0 |-> 0]

NoTask ==
    [nvars |-> 0, barvars |-> <<>>, cones |-> <<>>, running_idx |-> 0,
     vartypes |-> {}, ncons |-> 0, aij |-> {}, barterms |-> {},
     bar_i |-> 0, bounds |-> <<>>, clist |-> <<>>, params |-> <<>>,
     streams |-> FALSE, optimized |-> FALSE]

Apply ==
    /\ pc = "start"
    /\ IF ApplyRaises(problem)
       THEN /\ pc' = "apply_raised"
            /\ exc' = "ValueError"
            /\ UNCHANGED <<data, inv_data>>
       ELSE /\ pc' = "applied"
            /\ data' = ApplyData(problem)
            /\ inv_data' = ApplyInvData(problem)
            /\ exc' = exc
    /\ UNCHANGED <<problem, opts, session, task, pidx, result, solution, codec>>

(***************************************************************************)
(* solver_opts.  A string key is the sequence of its pieces, " " standing  *)
(* for surrounding whitespace; a key that is no string is a value of one   *)
(* of mosek's parameter enums or some other object.                        *)
(***************************************************************************)
StrTexts ==
    {<<"MSK_DPAR_", "X">>, <<" ", "MSK_IPAR_", "X", " ">>, <<"MSK_SPAR_", "X">>,
     <<" ", "MSK_DPAR_", "X">>, <<"BOGUS_", "X">>}

Keys ==
    [type : {"str"}, text : StrTexts]
    \cup [type : {"dparam", "iparam", "sparam", "other"}, text : {<<>>}]

\* str.strip()
RECURSIVE LStrip(_)
LStrip(t) == IF t # <<>> /\ Head(t) = " " THEN LStrip(Tail(t)) ELSE t

RECURSIVE RStrip(_)
RStrip(t) ==
    IF t # <<>> /\ t[Len(t)] = " " THEN RStrip(SubSeq(t, 1, Len(t) - 1)) ELSE t

Strip(t) == RStrip(LStrip(t))

\* str.startswith
StartsWith(t, prefix) == t # <<>> /\ Head(t) = prefix

\* _handle_str_param without its final else branch.
_handle_str_param_no_else(param) ==
    IF StartsWith(param, "MSK_DPAR_") THEN "putnadouparam"
    ELSE IF StartsWith(param, "MSK_IPAR_") THEN "putnaintparam"
    ELSE "putnastrparam"

\* _handle_str_param: the native call made for param, or the ValueError.
_handle_str_param(param) ==
    IF StartsWith(param, "MSK_DPAR_") THEN "putnadouparam"
    ELSE IF StartsWith(param, "MSK_IPAR_") THEN "putnaintparam"
    ELSE IF StartsWith(param, "MSK_SPAR_") THEN "putnastrparam"
    ELSE "ValueError"

\* _handle_enum_param
_handle_enum_param(key) ==
    IF key.type = "dparam" THEN "putdouparam"
    ELSE IF key.type = "iparam" THEN "putintparam"
    ELSE IF key.type = "sparam" THEN "putstrparam"
    ELSE "ValueError"

\* The body of the loop of _handle_mosek_params for one key.
HandleKey(key) ==
    IF key.type = "str"
    THEN _handle_str_param(Strip(key.text))
    ELSE _handle_enum_param(key)

(***************************************************************************)
(* solve_via_data                                                          *)
(***************************************************************************)
Raise(e) ==
    /\ exc' = e
    /\ pc' = "exit_task"

\* with mosek.Env() as env: with env.Task(0, 0) as task:
Acquire ==
    /\ pc = "applied"
    /\ session' = [env |-> "open", task |-> "open"]
    /\ task' = NoTask
    /\ pc' = "kwargs"
    /\ UNCHANGED <<problem, opts, data, inv_data, pidx, exc, result, solution, codec>>

\* kwargs = sorted(solver_opts.keys()); if "mosek_params" in kwargs: ...
Kwargs ==
    /\ pc = "kwargs"
    /\ IF "mosek_params" \in opts.kwargs /\ ~opts.params_none
       THEN pc' = "params" /\ pidx' = 1
       ELSE pc' = "checkkw" /\ pidx' = pidx
    /\ UNCHANGED <<problem, opts, data, inv_data, session, task, exc, result,
                   solution, codec>>

\* One iteration of "for param, value in params.items()".
HandleParam ==
    /\ pc = "params"
    /\ IF pidx > Len(opts.params)
       THEN /\ pc' = "checkkw"
            /\ UNCHANGED <<task, exc, pidx>>
       ELSE LET call == HandleKey(opts.params[pidx])
            IN  IF call = "ValueError"
                THEN /\ Raise("ValueError")
                     /\ UNCHANGED <<task, pidx>>
                ELSE \/ /\ task' = [task EXCEPT !.params =
                                       Append(@, [call |-> call, key |-> pidx])]
                        /\ pidx' = pidx + 1
                        /\ UNCHANGED <<pc, exc>>
                     \/ /\ Raise("mosek.Error")
                        /\ UNCHANGED <<task, pidx>>
    /\ UNCHANGED <<problem, opts, data, inv_data, session, result, solution, codec>>

\* kwargs.remove("mosek_params"); if kwargs: raise ValueError
CheckKwargs ==
    /\ pc = "checkkw"
    /\ IF opts.kwargs \ {"mosek_params"} # {}
       THEN Raise("ValueError")
       ELSE pc' = "verbose" /\ exc' = exc
    /\ UNCHANGED <<problem, opts, data, inv_data, session, task, pidx, result,
                   solution, codec>>

\* if verbose: set_Stream, putintparam(infeas_report_auto)
Verbose ==
    /\ pc = "verbose"
    /\ pc' = "zerocheck"
    /\ task' = IF opts.verbose THEN [task EXCEPT !.streams = TRUE] ELSE task
    /\ UNCHANGED <<problem, opts, data, inv_data, session, pidx, exc, result,
                   solution, codec>>

\* if len(data[s.C]) == 0: return {..., s.VALUE: data[s.OFFSET], ...}
ZeroCheck ==
    /\ pc = "zerocheck"
    /\ IF Len(data.C) = 0
       THEN IF "OFFSET" \in DOMAIN data
            THEN /\ result' = [kind |-> "dict", STATUS |-> "OPTIMAL",
                               PRIMAL |-> <<>>, VALUE |-> data["OFFSET"],
                               EQ_DUAL |-> <<>>, INEQ_DUAL |-> <<>>]
                 /\ pc' = "exit_task"
                 /\ exc' = exc
            ELSE /\ Raise("KeyError")
                 /\ result' = result
       ELSE /\ pc' = "declare"
            /\ UNCHANGED <<exc, result>>
    /\ UNCHANGED <<problem, opts, data, inv_data, session, task, pidx, solution,
                   codec>>

\* np.arange(a, b) as a sequence
Arange(a, b) == [k \in 1..(b - a) |-> a + k - 1]

\* n = n0 + sum(dims[s.SOC_DIM]) + sum(dims[s.EXP_DIM])
NumVars(d) == Len(d.C) + Sum(d.DIMS.q) + Sum(d.DIMS.ep)

\* psd_total_dims = sum([el ** 2 for el in dims[s.PSD_DIM]])
psd_total_dims(d) == Sum([k \in DOMAIN d.DIMS.s |-> d.DIMS.s[k] * d.DIMS.s[k]])

total_soc_exp_slacks(d) == Sum(d.DIMS.q) + Sum(d.DIMS.ep)

\* task.appendvars(n); task.putvarboundlist(...); task.appendbarvars(...)
DeclareVars ==
    /\ pc = "declare"
    /\ task' = [task EXCEPT
                  !.nvars = NumVars(data),
                  !.barvars = IF psd_total_dims(data) > 0 THEN data.DIMS.s ELSE <<>>,
                  !.running_idx = Len(data.C)]
    /\ pc' = "cones"
    /\ UNCHANGED <<problem, opts, data, inv_data, session, pidx, exc, result,
                   solution, codec>>

\* The loop over the SOC sizes without "running_idx += size_cone".
RECURSIVE QuadConesNoAdvance(_, _)
QuadConesNoAdvance(sizes, running_idx) ==
    IF sizes = <<>> THEN <<>>
    ELSE <<[type |-> "quad",
            idx |-> Arange(running_idx, running_idx + Head(sizes))]>>
         \o QuadConesNoAdvance(Tail(sizes), running_idx)

\* for size_cone in dims[s.SOC_DIM]: appendcone(quad, arange(running_idx, ...))
RECURSIVE QuadCones(_, _)
QuadCones(sizes, running_idx) ==
    IF sizes = <<>> THEN <<>>
    ELSE <<[type |-> "quad",
            idx |-> Arange(running_idx, running_idx + Head(sizes))]>>
         \o QuadCones(Tail(sizes), running_idx + Head(sizes))

\* for k in range(sum(dims[s.EXP_DIM]) // 3): appendcone(pexp, arange(running_idx, +3))
PexpCones(ep, running_idx) ==
    [k \in 1..(Sum(ep) \div 3) |->
        [type |-> "pexp",
         idx |-> Arange(running_idx + 3 * (k - 1), running_idx + 3 * (k - 1) + 3)]]

AppendCones ==
    /\ pc = "cones"
    /\ LET quad == QuadCones(data.DIMS.q, task.running_idx)
           after_quad == task.running_idx + Sum(data.DIMS.q)
           pexp == PexpCones(data.DIMS.ep, after_quad)
       IN  task' = [task EXCEPT
                      !.cones = quad \o pexp,
                      !.running_idx = after_quad + 3 * Len(pexp)]
    /\ pc' = "integrality"
    /\ UNCHANGED <<problem, opts, data, inv_data, session, pidx, exc, result,
                   solution, codec>>

\* if num_bool + num_int > 0: putvartypelist / putvarboundlist
Integrality ==
    /\ pc = "integrality"
    /\ task' = IF Len(data.BOOL_IDX) + Len(data.INT_IDX) > 0
               THEN [task EXCEPT !.vartypes =
                        {[var |-> i, bound |-> "ra"] : i \in Range(data.BOOL_IDX)}
                        \cup {[var |-> i, bound |-> "fr"] : i \in Range(data.INT_IDX)}]
               ELSE task
    /\ pc' = "aij"
    /\ UNCHANGED <<problem, opts, data, inv_data, session, pidx, exc, result,
                   solution, codec>>

\* task.putaijlist(rows, cols, vals): a later entry replaces an earlier one
\* at the same position.
putaijlist(aij, entries) ==
    {e \in aij : ~\E f \in entries : f.r = e.r /\ f.c = e.c} \cup entries

\* row, col, vals = sp.sparse.find(G)
FindG(d) == {[r |-> e[1], c |-> e[2], v |-> "G"] : e \in d.G}

\* The identity block placed after the inequality rows only.
IdentityBlockAfterLeq(d) ==
    LET i == d.DIMS.l
        j == Len(d.C)
        rows == Arange(i, i + total_soc_exp_slacks(d))
        cols == Arange(j, j + total_soc_exp_slacks(d))
    IN  {[r |-> rows[k], c |-> cols[k], v |-> "1"] : k \in DOMAIN rows}

\* The identity block of the SOC and EXP slack variables.
IdentityBlock(d) ==
    LET i == d.DIMS.l + d.DIMS.f
        j == Len(d.C)
        rows == Arange(i, i + total_soc_exp_slacks(d))
        cols == Arange(j, j + total_soc_exp_slacks(d))
    IN  {[r |-> rows[k], c |-> cols[k], v |-> "1"] : k \in DOMAIN rows}

\* task.appendcons(m); putaijlist(find(G)); putaijlist(identity)
PutAij ==
    /\ pc = "aij"
    /\ task' = [task EXCEPT
                  !.ncons = Len(data.H),
                  !.aij = IF total_soc_exp_slacks(data) > 0
                          THEN putaijlist(putaijlist(@, FindG(data)),
                                          IdentityBlock(data))
                          ELSE putaijlist(@, FindG(data))]
    /\ pc' = "bar"
    /\ UNCHANGED <<problem, opts, data, inv_data, session, pidx, exc, result,
                   solution, codec>>

\* The trace terms with weight 1.0 off the diagonal too.
BarTermsUnweighted(i, j, dim) ==
    {[i   |-> i + row_idx * dim + col_idx,
      j   |-> j,
      row |-> Max(row_idx, col_idx),
      col |-> Min(row_idx, col_idx),
      val |-> "1.0"] :
        <<row_idx, col_idx>> \in (0..(dim - 1)) \X (0..(dim - 1))}

\* The trace terms of PSD variable j of dimension dim, its first row being i:
\* for row_idx in range(dim): for col_idx in range(dim): ... putbaraij; i += 1
BarTerms(i, j, dim) ==
    {[i   |-> i + row_idx * dim + col_idx,
      j   |-> j,
      row |-> Max(row_idx, col_idx),
      col |-> Min(row_idx, col_idx),
      val |-> IF row_idx = col_idx THEN "1.0" ELSE "0.5"] :
        <<row_idx, col_idx>> \in (0..(dim - 1)) \X (0..(dim - 1))}

\* for j, dim in enumerate(dims[s.PSD_DIM]): ...
RECURSIVE BarLoop(_, _, _)
BarLoop(psd, j, i) ==
    IF j >= Len(psd) THEN [terms |-> {}, i |-> i]
    ELSE LET dim == psd[j + 1]
             rest == BarLoop(psd, j + 1, i + dim * dim)
         IN  [terms |-> BarTerms(i, j, dim) \cup rest.terms, i |-> rest.i]

PutBarA ==
    /\ pc = "bar"
    /\ LET i == data.DIMS.l + data.DIMS.f + total_soc_exp_slacks(data)
           loop == BarLoop(data.DIMS.s, 0, i)
       IN  task' = [task EXCEPT !.barterms = loop.terms, !.bar_i = loop.i]
    /\ pc' = "bounds"
    /\ UNCHANGED <<problem, opts, data, inv_data, session, pidx, exc, result,
                   solution, codec>>

\* The bound keys with the fixed rows listed before the upper-bounded rows.
type_constraint_fx_first(d) ==
    LET num_eq == Len(d.H) - d.DIMS.l
    IN  [k \in 1..num_eq |-> "fx"] \o [k \in 1..d.DIMS.l |-> "up"]

\* type_constraint = [up] * dims[LEQ_DIM] + [fx] * num_eq
type_constraint(d) ==
    LET num_eq == Len(d.H) - d.DIMS.l
    IN  [k \in 1..d.DIMS.l |-> "up"] \o [k \in 1..num_eq |-> "fx"]

\* task.putconboundlist(np.arange(m), type_constraint, h, h)
PutBounds ==
    /\ pc = "bounds"
    /\ task' = [task EXCEPT !.bounds =
                  [k \in 1..Len(data.H) |->
                      [key |-> type_constraint(data)[k], row |-> data.H[k]]]]
    /\ pc' = "optimize"
    /\ UNCHANGED <<problem, opts, data, inv_data, session, pidx, exc, result,
                   solution, codec>>

\* task.putclist(...); task.putobjsense(minimize); task.optimize(); return task
Optimize ==
    /\ pc = "optimize"
    /\ task' = [task EXCEPT !.clist = data.C, !.optimized = TRUE]
    /\ result' = [kind |-> "task"]
    /\ pc' = "exit_task"
    /\ UNCHANGED <<problem, opts, data, inv_data, session, pidx, exc, solution,
                   codec>>

\* A call of the mosek API raises.
NativeSteps == {"declare", "cones", "integrality", "aij", "bar", "bounds", "optimize"}

NativeError ==
    /\ pc \in NativeSteps \/ (pc = "verbose" /\ opts.verbose)
    /\ Raise("mosek.Error")
    /\ UNCHANGED <<problem, opts, data, inv_data, session, task, pidx, result,
                   solution, codec>>

\* A task that is released on return but not when an exception leaves the block.
ExitTaskOnReturnOnly ==
    /\ pc = "exit_task"
    /\ session' = IF exc = None THEN [session EXCEPT !.task = "released"] ELSE session
    /\ pc' = "exit_env"
    /\ UNCHANGED <<problem, opts, data, inv_data, task, pidx, exc, result,
                   solution, codec>>

\* Leaving "with env.Task(0, 0) as task", by return or by exception.
ExitTask ==
    /\ pc = "exit_task"
    /\ session' = [session EXCEPT !.task = "released"]
    /\ pc' = "exit_env"
    /\ UNCHANGED <<problem, opts, data, inv_data, task, pidx, exc, result,
                   solution, codec>>

\* Leaving "with mosek.Env() as env".
ExitEnv ==
    /\ pc = "exit_env"
    /\ session' = [session EXCEPT !.env = "released"]
    /\ pc' = IF exc = None THEN "returned" ELSE "raised"
    /\ UNCHANGED <<problem, opts, data, inv_data, task, pidx, exc, result,
                   solution, codec>>

(***************************************************************************)
(* vectorized_lower_tri_to_mat                                             *)
(***************************************************************************)
\* The (row, col, val) triples the loop over j collects:
\* rows += [j + k for k in range(dim - j)]; cols += [j] * (dim - j);
\* vals += v[running_idx:(running_idx + dim - j)]; running_idx += dim - j
RECURSIVE TriLoop(_, _, _, _)
TriLoop(v, dim, j, running_idx) ==
    IF j >= dim THEN <<>>
    ELSE [k \in 1..(dim - j) |->
             [row |-> j + k - 1, col |-> j, val |-> v[running_idx + k]]]
         \o TriLoop(v, dim, j + 1, running_idx + dim - j)

\* sp.sparse.coo_matrix((vals, (rows, cols)), shape).toarray(): entries at
\* the same position add up, the other positions are 0.
RECURSIVE SumAt(_, _, _)
SumAt(entries, r, c) ==
    IF entries = <<>> THEN 0
    ELSE (IF Head(entries).row = r /\ Head(entries).col = c
          THEN Head(entries).val ELSE 0) + SumAt(Tail(entries), r, c)

CooToArray(entries, dim) ==
    [r \in 0..(dim - 1) |-> [c \in 0..(dim - 1) |-> SumAt(entries, r, c)]]

\* A diagonal that is never subtracted.
DiagZero(A, dim) == [r \in 0..(dim - 1) |-> [c \in 0..(dim - 1) |-> 0]]

\* d = np.diag(np.diag(A))
Diag(A, dim) ==
    [r \in 0..(dim - 1) |-> [c \in 0..(dim - 1) |-> IF r = c THEN A[r][c] ELSE 0]]

\* A = A + A.T - d
vectorized_lower_tri_to_mat(v, dim) ==
    LET A == CooToArray(TriLoop(v, dim, 0, 0), dim)
        d == Diag(A, dim)
    IN  [r \in 0..(dim - 1) |->
            [c \in 0..(dim - 1) |-> A[r][c] + A[c][r] - d[r][c]]]

(***************************************************************************)
(* invert                                                                  *)
(***************************************************************************)
STATUS_MAP ==
    [optimal              |-> "OPTIMAL",
     integer_optimal      |-> "OPTIMAL",
     prim_infeas_cer      |-> "INFEASIBLE",
     dual_infeas_cer      |-> "UNBOUNDED",
     near_optimal         |-> "OPTIMAL_INACCURATE",
     near_integer_optimal |-> "OPTIMAL_INACCURATE",
     near_prim_infeas_cer |-> "INFEASIBLE_INACCURATE",
     near_dual_infeas_cer |-> "UNBOUNDED_INACCURATE",
     unknown              |-> "SOLVER_ERROR"]

\* The values of mosek.solsta: those of STATUS_MAP and the others.
SolSta ==
    DOMAIN STATUS_MAP
    \cup {"prim_feas", "dual_feas", "prim_and_dual_feas", "prim_illposed_cer"}

\* cvxpy.settings.SOLUTION_PRESENT
SOLUTION_PRESENT == {"OPTIMAL", "OPTIMAL_INACCURATE"}

\* The objective values the solver may report.
PrimalObjs == {-3, 4}

\* A position of one of the solver's solution buffers.
Pos(buf, i) == [buf |-> buf, pos |-> i]

\* task.getsucslice / getyslice / getsnxslice / getxxslice(sol, first, last, out)
GetSlice(buf, first, last) == [k \in 1..(last - first) |-> Pos(buf, first + k - 1)]

\* task.getbarsj(sol, j, sj): the value at index k of the dual of PSD variable j.
GetBarsj(j, len) == [k \in 1..len |-> 100 * (j + 1) + k]

DictPut(d, key, val) ==
    [x \in DOMAIN d \cup {key} |-> IF x = key THEN val ELSE d[x]]

\* dict.update
DictUpdate(d, o) ==
    [x \in DOMAIN d \cup DOMAIN o |-> IF x \in DOMAIN o THEN o[x] ELSE d[x]]

\* parse_dual_vars: the loop from entry k of constr_id_to_constr_dim on.
RECURSIVE ParseLoop(_, _, _, _, _)
ParseLoop(dual_var, table, k, running_idx, dual_vars) ==
    IF k > Len(table) THEN dual_vars
    ELSE LET id == table[k][1]
             dim == table[k][2]
             val == IF dim = 1
                    THEN [shape |-> "scalar", v |-> <<dual_var[running_idx + 1]>>]
                    ELSE [shape |-> "array",
                          v |-> SubSeq(dual_var, running_idx + 1, running_idx + dim)]
         IN  ParseLoop(dual_var, table, k + 1, running_idx + dim,
                       DictPut(dual_vars, id, val))

parse_dual_vars(dual_var, constr_id_to_constr_dim) ==
    ParseLoop(dual_var, constr_id_to_constr_dim, 1, 0, <<>>)

TableLen(table) == Sum([k \in DOMAIN table |-> table[k][2]])

\* for j, (id, dim) in enumerate(inverse_data['psd_dims']): ...
RECURSIVE PsdDuals(_, _, _)
PsdDuals(psd_dims, j, dual_vars) ==
    IF j >= Len(psd_dims) THEN dual_vars
    ELSE LET id == psd_dims[j + 1][1]
             dim == psd_dims[j + 1][2]
             sj == GetBarsj(j, (dim * (dim + 1)) \div 2)
         IN  PsdDuals(psd_dims, j + 1,
                      DictPut(dual_vars, id,
                              [shape |-> "matrix",
                               v |-> vectorized_lower_tri_to_mat(sj, dim)]))

\* The equality duals read from the start of the row duals.
InvertDualsYFromZero(inverse_data) ==
    LET suc_len == TableLen(inverse_data.suc_slacks)
        y_len == TableLen(inverse_data.y_slacks)
        snx_len == TableLen(inverse_data.snx_slacks)
        suc == GetSlice("suc", 0, suc_len)
        y == GetSlice("y", 0, y_len)
        snx == GetSlice("snx", inverse_data.n0, inverse_data.n0 + snx_len)
        d1 == DictUpdate(<<>>, parse_dual_vars(suc, inverse_data.suc_slacks))
        d2 == DictUpdate(d1, parse_dual_vars(y, inverse_data.y_slacks))
        d3 == DictUpdate(d2, parse_dual_vars(snx, inverse_data.snx_slacks))
    IN  PsdDuals(inverse_data.psd_dims, 0, d3)

InvertDuals(inverse_data) ==
    LET suc_len == TableLen(inverse_data.suc_slacks)
        y_len == TableLen(inverse_data.y_slacks)
        snx_len == TableLen(inverse_data.snx_slacks)
        suc == GetSlice("suc", 0, suc_len)
        y == GetSlice("y", suc_len, suc_len + y_len)
        snx == GetSlice("snx", inverse_data.n0, inverse_data.n0 + snx_len)
        d1 == DictUpdate(<<>>, parse_dual_vars(suc, inverse_data.suc_slacks))
        d2 == DictUpdate(d1, parse_dual_vars(y, inverse_data.y_slacks))
        d3 == DictUpdate(d2, parse_dual_vars(snx, inverse_data.snx_slacks))
    IN  PsdDuals(inverse_data.psd_dims, 0, d3)

\* The infinities of the two certificates exchanged.
NoSolutionValueSwapped(status) ==
    IF status = "INFEASIBLE" THEN [kind |-> "-inf", v |-> 0]
    ELSE IF status = "UNBOUNDED" THEN [kind |-> "inf", v |-> 0]
    ELSE [kind |-> None, v |-> 0]

\* opt_val when no solution is present
NoSolutionValue(status) ==
    IF status = "INFEASIBLE" THEN [kind |-> "inf", v |-> 0]
    ELSE IF status = "UNBOUNDED" THEN [kind |-> "-inf", v |-> 0]
    ELSE [kind |-> None, v |-> 0]

\* The Solution invert builds from the solution status and the primal
\* objective the task reports.
invert(solution_status, primalobj, inverse_data) ==
    LET status == STATUS_MAP[solution_status]
        sol == IF inverse_data.integer_variables THEN "itg" ELSE "itr"
    IN  IF status \in SOLUTION_PRESENT
        THEN [status      |-> status,
              soltype     |-> sol,
              opt_val     |-> [kind |-> "num",
                               v |-> primalobj + inverse_data.OBJ_OFFSET],
              primal_vars |-> [present |-> TRUE,
                               x |-> GetSlice("xx", 0, inverse_data.n0)],
              dual_vars   |-> [present |-> TRUE, d |-> InvertDuals(inverse_data)]]
        ELSE [status      |-> status,
              soltype     |-> sol,
              opt_val     |-> NoSolutionValue(status),
              primal_vars |-> [present |-> FALSE, x |-> <<>>],
              dual_vars   |-> [present |-> FALSE, d |-> <<>>]]

\* invert(task, inverse_data) on what solve_via_data returned.  The dict of
\* the zero-variable return has no getprosta; a solution status that is no
\* key of STATUS_MAP is a KeyError; a read of the task may raise.
Invert ==
    /\ pc = "returned"
    /\ \/ /\ result.kind = "dict"
          /\ pc' = "invert_raised"
          /\ exc' = "AttributeError"
          /\ solution' = solution
       \/ /\ result.kind = "task"
          /\ \E solution_status \in SolSta, primalobj \in PrimalObjs :
                IF solution_status \in DOMAIN STATUS_MAP
                THEN /\ solution' = [solsta |-> solution_status,
                                      primalobj |-> primalobj,
                                      sol |-> invert(solution_status, primalobj,
                                                     inv_data)]
                     /\ pc' = "inverted"
                     /\ exc' = exc
                ELSE /\ pc' = "invert_raised"
                     /\ exc' = "KeyError"
                     /\ solution' = [solution EXCEPT !.solsta = solution_status]
       \/ /\ result.kind = "task"
          /\ pc' = "invert_raised"
          /\ exc' = "mosek.Error"
          /\ solution' = solution
    /\ UNCHANGED <<problem, opts, data, inv_data, session, task, pidx, result,
                   codec>>

(***************************************************************************)
(* The runs of apply, solve_via_data and invert.                           *)
(***************************************************************************)
SeqsUpTo(S, n) == UNION {[1..k -> S] : k \in 0..n}

Injective(f) == \A a, b \in DOMAIN f : f[a] = f[b] => a = b

\* The items of a mosek_params dict in iteration order: the keys differ.
ParamSeqs == {ps \in SeqsUpTo(Keys, MaxParams) : Injective(ps)}

Problems ==
    [cons : {WithIds(sh) : sh \in SeqsUpTo(Shapes, MaxCons)},
     n0 : {0, 2}, offset : {5}, bool_idx : {<<>>}, int_idx : {<<>>}]

PlainOpts ==
    [kwargs |-> {}, params_none |-> FALSE, params |-> <<>>, verbose |-> FALSE]

SmallCons ==
    {<<[kind |-> "NonPos", sizes |-> <<1>>]>>,
     <<[kind |-> "Zero", sizes |-> <<2>>], [kind |-> "NonPos", sizes |-> <<1>>]>>,
     <<[kind |-> "SOC", sizes |-> <<3, 2>>], [kind |-> "PSD", sizes |-> <<2>>],
       [kind |-> "ExpCone", sizes |-> <<1>>]>>}

SmallProblems ==
    {p \in [cons : {WithIds(sh) : sh \in SmallCons}, n0 : {0, 2},
            offset : {-2, 5}, bool_idx : {<<>>, <<0>>}, int_idx : {<<>>, <<1>>}] :
        /\ p.n0 = 0 <=> Len(p.cons) = 1
        /\ p.offset = -2 <=> Len(p.cons) = 2
        /\ p.bool_idx # <<>> <=> Len(p.cons) = 2
        /\ p.int_idx # <<>> => (Len(p.cons) = 3 /\ p.bool_idx = <<>>)}

AllOpts ==
    {o \in [kwargs : SUBSET {"mosek_params", "bogus"}, params_none : BOOLEAN,
            params : ParamSeqs, verbose : BOOLEAN] :
        /\ "mosek_params" \notin o.kwargs => (o.params = <<>> /\ ~o.params_none)
        /\ o.params_none => o.params = <<>>}

NoSolution == [solsta |-> None, primalobj |-> 0, sol |-> [status |-> None]]

IdleCodec == [pc |-> "idle"]

Init ==
    /\ \/ problem \in Problems /\ opts = PlainOpts
       \/ problem \in SmallProblems /\ opts \in AllOpts
    /\ data = NoData
    /\ inv_data = NoInvData
    /\ pc = "start"
    /\ session = [env |-> "none", task |-> "none"]
    /\ task = NoTask
    /\ pidx = 0
    /\ exc = None
    /\ result = [kind |-> None]
    /\ solution = NoSolution
    /\ codec = IdleCodec

Next ==
    \/ Apply
    \/ Acquire
    \/ Kwargs
    \/ HandleParam
    \/ CheckKwargs
    \/ Verbose
    \/ ZeroCheck
    \/ DeclareVars
    \/ AppendCones
    \/ Integrality
    \/ PutAij
    \/ PutBarA
    \/ PutBounds
    \/ Optimize
    \/ NativeError
    \/ ExitTask
    \/ ExitEnv
    \/ Invert

Spec == Init /\ [][Next]_vars

(***************************************************************************)
(* The runs of the symmetric-matrix codec: the solver hands over the       *)
(* half-vector of a symmetric matrix, vectorized_lower_tri_to_mat decodes. *)
(***************************************************************************)
Vals == {-1, 0, 2}

LowerPairs(dim) == {ij \in (0..(dim - 1)) \X (0..(dim - 1)) : ij[1] >= ij[2]}

\* The symmetric dim x dim matrix with the lower-triangular entries L.
SymMatrix(L, dim) ==
    [r \in 0..(dim - 1) |-> [c \in 0..(dim - 1) |-> L[<<Max(r, c), Min(r, c)>>]]]

\* The lower-triangular entries of M column by column: column 0's dim
\* entries, then column 1's dim - 1 entries, and so on.
RECURSIVE HalfVectorFrom(_, _, _)
HalfVectorFrom(M, dim, j) ==
    IF j >= dim THEN <<>>
    ELSE [k \in 1..(dim - j) |-> M[j + k - 1][j]] \o HalfVectorFrom(M, dim, j + 1)

HalfVector(M, dim) == HalfVectorFrom(M, dim, 0)

InitCodec ==
    /\ \E dim \in 1..MaxDim : \E L \in [LowerPairs(dim) -> Vals] :
          codec = [pc |-> "input", dim |-> dim, M |-> SymMatrix(L, dim),
                   v |-> HalfVector(SymMatrix(L, dim), dim)]
    /\ problem = [cons |-> <<>>, n0 |-> 0, offset |-> 0, bool_idx |-> <<>>,
                  int_idx |-> <<>>]
    /\ opts = PlainOpts
    /\ data = NoData
    /\ inv_data = NoInvData
    /\ pc = "codec"
    /\ session = [env |-> "none", task |-> "none"]
    /\ task = NoTask
    /\ pidx = 0
    /\ exc = None
    /\ result = [kind |-> None]
    /\ solution = NoSolution

Decode ==
    /\ codec.pc = "input"
    /\ codec' = [pc |-> "decoded", dim |-> codec.dim, M |-> codec.M, v |-> codec.v,
                 out |-> vectorized_lower_tri_to_mat(codec.v, codec.dim)]
    /\ UNCHANGED solveVars

NextCodec == Decode

SpecCodec == InitCodec /\ [][NextCodec]_vars

(***************************************************************************)
(* Properties.                                                             *)
(***************************************************************************)
Finished == pc \in {"returned", "raised", "inverted", "invert_raised"}

NoDeclarations ==
    /\ task.nvars = 0
    /\ task.barvars = <<>>
    /\ task.cones = <<>>
    /\ task.ncons = 0
    /\ task.aij = {}
    /\ task.barterms = {}
    /\ task.bounds = <<>>

\* The status table of the interface description; a status that is not in
\* the table is said to resolve to SolverError.
TableStatus(solsta) ==
    CASE solsta \in {"optimal", "integer_optimal"} -> "OPTIMAL"
      [] solsta = "prim_infeas_cer" -> "INFEASIBLE"
      [] solsta = "dual_infeas_cer" -> "UNBOUNDED"
      [] solsta \in {"near_optimal", "near_integer_optimal"} -> "OPTIMAL_INACCURATE"
      [] solsta = "near_prim_infeas_cer" -> "INFEASIBLE_INACCURATE"
      [] solsta = "near_dual_infeas_cer" -> "UNBOUNDED_INACCURATE"
      [] OTHER -> "SOLVER_ERROR"

\* C1: whenever invert has read a solution status from the task, it returns
\* a Solution whose status is the one the status table gives that value, and
\* SolverError for a value that is not in the table; it never ends in an
\* exception on a status value.
C1_StatusMappingTotal ==
    (pc \in {"inverted", "invert_raised"} /\ solution.solsta # None)
        => /\ pc = "inverted"
           /\ solution.sol.status = TableStatus(solution.solsta)

\* C2: a run of apply and solve_via_data on a problem with n0 = 0 (valid
\* options, no error of the solver) ends by returning the trivial result:
\* status Optimal, empty primal and duals, value the offset apply recorded,
\* with nothing declared and the solver not invoked.
C2_ZeroVariableResult ==
    (problem.n0 = 0 /\ pc \in {"returned", "raised"}
                    /\ exc \notin {"ValueError", "mosek.Error"})
        => /\ pc = "returned"
           /\ result.kind = "dict"
           /\ result.STATUS = "OPTIMAL"
           /\ result.PRIMAL = <<>>
           /\ result.EQ_DUAL = <<>>
           /\ result.INEQ_DUAL = <<>>
           /\ result.VALUE = data.OBJ_OFFSET
           /\ NoDeclarations
           /\ ~task.optimized

SessionReleased == session.env = "released" /\ session.task = "released"

\* C3: once solve_via_data has returned or raised, whichever way it left
\* (return after optimize, the zero-variable return, an invalid keyword
\* argument, an invalid parameter key, an exception of a declaration step or
\* of the solve), the task and the environment are released; and a run that
\* holds the session is never stuck: it has a next step, so that, the runs
\* being finite, it reaches its release.
C3_SessionReleasedOnEveryExit ==
    /\ Finished => SessionReleased
    /\ (session.task = "open" \/ session.env = "open") => ENABLED Next

\* A run that raised from a declaration step after acquiring the session.
C3_Witness ==
    /\ pc = "raised"
    /\ exc = "mosek.Error"
    /\ task.nvars > 0
    /\ task.cones # <<>>
    /\ SessionReleased

Prefixes == {"MSK_DPAR_", "MSK_IPAR_", "MSK_SPAR_"}

EnumTypes == {"dparam", "iparam", "sparam"}

ParamsGiven == "mosek_params" \in opts.kwargs /\ ~opts.params_none

\* A key that is neither a string beginning with one of the prefixes nor a
\* value of the parameter enums.
BadKeyAsWritten(key) ==
    IF key.type = "str"
    THEN ~(key.text # <<>> /\ Head(key.text) \in Prefixes)
    ELSE key.type \notin EnumTypes

\* The same, a string key being read without its surrounding whitespace.
BadKeyStripped(key) ==
    IF key.type = "str"
    THEN \A i \in DOMAIN key.text :
            (\A h \in 1..(i - 1) : key.text[h] = " ") => key.text[i] \notin Prefixes
    ELSE key.type \notin EnumTypes

FirstBad(ps) ==
    CHOOSE i \in DOMAIN ps :
        BadKeyStripped(ps[i]) /\ \A h \in 1..(i - 1) : ~BadKeyStripped(ps[h])

\* C4 as stated: with a bad key among the parameters solve_via_data does not
\* return, declares nothing, never invokes the solver, and when the
\* configuration error is raised no parameter of the call has been applied.
C4_ParamErrorAsStated ==
    (ParamsGiven /\ \E i \in DOMAIN opts.params : BadKeyAsWritten(opts.params[i]))
        => /\ pc \notin {"returned", "inverted", "invert_raised"}
           /\ NoDeclarations
           /\ ~task.optimized
           /\ (exc = "ValueError" => task.params = <<>>)

\* C4 (amended): with a key among the parameters that, surrounding
\* whitespace of a string key stripped, is neither a prefixed string nor a
\* parameter enum value, solve_via_data never returns: it raises with
\* nothing declared and the solver not invoked; the error is the
\* configuration error unless the solver rejected an earlier parameter, and
\* when the configuration error is raised exactly the parameters before the
\* bad key have been applied, in iteration order.
C4_ParamErrorBeforeDeclarations ==
    (ParamsGiven /\ \E i \in DOMAIN opts.params : BadKeyStripped(opts.params[i]))
        => /\ pc \notin {"returned", "inverted", "invert_raised"}
           /\ NoDeclarations
           /\ ~task.optimized
           /\ result.kind = None
           /\ exc \in {None, "ValueError", "mosek.Error"}
           /\ pc = "raised" => exc # None
           /\ exc = "ValueError" =>
                 /\ Len(task.params) = FirstBad(opts.params) - 1
                 /\ \A k \in DOMAIN task.params : task.params[k].key = k

\* The configuration error raised after an earlier parameter was applied.
C4_Witness ==
    /\ ParamsGiven
    /\ pc = "raised"
    /\ exc = "ValueError"
    /\ Len(task.params) = 1
    /\ BadKeyStripped(opts.params[2])
    /\ NoDeclarations

\* C5: the Solution invert returns has primal and dual values exactly when
\* its status is Optimal or OptimalInaccurate, and then its value is the
\* primal objective of the solver plus the offset of the problem; otherwise
\* its value is +infinity for Infeasible, -infinity for Unbounded and absent
\* for the other statuses.
C5_OutputsByStatus ==
    pc = "inverted" =>
        LET sol == solution.sol
            present == sol.status \in {"OPTIMAL", "OPTIMAL_INACCURATE"}
        IN  /\ sol.primal_vars.present <=> present
            /\ sol.dual_vars.present <=> present
            /\ present =>
                  /\ sol.opt_val = [kind |-> "num",
                                    v |-> solution.primalobj + problem.offset]
                  /\ Len(sol.primal_vars.x) = problem.n0
                  /\ DOMAIN sol.dual_vars.d = {problem.cons[k].id : k \in DOMAIN problem.cons}
            /\ ~present =>
                  /\ sol.primal_vars.x = <<>>
                  /\ sol.dual_vars.d = <<>>
                  /\ sol.opt_val.kind =
                        CASE sol.status = "INFEASIBLE" -> "inf"
                          [] sol.status = "UNBOUNDED" -> "-inf"
                          [] sol.status \in {"INFEASIBLE_INACCURATE",
                                             "UNBOUNDED_INACCURATE",
                                             "SOLVER_ERROR"} -> None

\* An infeasible problem decoded: value +infinity, no primal, no duals.
C5_Witness ==
    /\ pc = "inverted"
    /\ solution.sol.status = "INFEASIBLE"
    /\ solution.sol.opt_val.kind = "inf"
    /\ ~solution.sol.primal_vars.present
    /\ ~solution.sol.dual_vars.present

Applied == pc \notin {"start", "apply_raised", "codec"}

\* The sum of the lengths of the entries of a table before entry k.
StartOf(table, k) == Sum([h \in 1..(k - 1) |-> table[h][2]])

\* Cutting `segment` consecutively by the (id, length) pairs of `table`
\* gives each constraint of `cons` its own rows, in input order.
CutsOwnRows(cons, order, table, segment) ==
    /\ Len(table) = Len(cons)
    /\ \A k \in DOMAIN cons : table[k][1] = cons[k].id
    /\ StartOf(table, Len(table) + 1) = Len(segment)
    /\ \A k \in DOMAIN cons :
          LET start == StartOf(table, k)
              len == table[k][2]
              own == format_constr(cons[k], order)
              cut == parse_dual_vars(segment, table)[cons[k].id]
          IN  /\ len = Len(own)
              /\ SubSeq(segment, start + 1, start + len) = own
              /\ cut.v = own
              /\ cut.shape = "scalar" <=> len = 1
              /\ \A i \in DOMAIN segment :
                    segment[i].id = cons[k].id <=> (start < i /\ i <= start + len)

\* C6: for each non-empty list of constraints of one kind that apply hands
\* to block_format, cutting the stacked rows by the recorded (id, length)
\* pairs as parse_dual_vars does gives constraint k exactly the rows from
\* the sum of the earlier lengths on, its own rows in their order; the ids
\* are in input order and the lengths sum to the number of stacked rows.
C6_BlockFormatCutsOwnRows ==
    Applied =>
        LET l == data.DIMS.l
            f == data.DIMS.f
            q == Sum(data.DIMS.q)
            soc == Filter(problem.cons, "SOC")
            snx == inv_data.snx_slacks
        IN  /\ CutsOwnRows(Filter(problem.cons, "NonPos"), <<>>,
                           inv_data.suc_slacks, SubSeq(data.H, 1, l))
            /\ CutsOwnRows(Filter(problem.cons, "Zero"), <<>>,
                           inv_data.y_slacks, SubSeq(data.H, l + 1, l + f))
            /\ CutsOwnRows(soc, <<>>, SubSeq(snx, 1, Len(soc)),
                           SubSeq(data.H, l + f + 1, l + f + q))
            /\ CutsOwnRows(Filter(problem.cons, "ExpCone"), EXP_CONE_ORDER,
                           SubSeq(snx, Len(soc) + 1, Len(snx)),
                           SubSeq(data.H, l + f + q + 1,
                                  l + f + q + Sum(data.DIMS.ep)))

\* Two inequality constraints of different lengths stacked and recorded.
C6_Witness ==
    /\ pc = "applied"
    /\ Len(inv_data.suc_slacks) = 2
    /\ inv_data.suc_slacks[1][2] = 2
    /\ inv_data.suc_slacks[2][2] = 1
    /\ data.H[3].id = inv_data.suc_slacks[2][1]

\* C7: decoding the half-vector of the lower-triangular entries of a
\* symmetric matrix M, listed column by column, gives M back entry by
\* entry: the result is symmetric, an off-diagonal entry of the half-vector
\* is at (i, j) and at (j, i), and a diagonal entry is not doubled.
C7_CodecRoundTrip ==
    codec.pc = "decoded" =>
        /\ codec.out = codec.M
        /\ \A r, c \in 0..(codec.dim - 1) : codec.out[r][c] = codec.out[c][r]
        /\ \A r \in 0..(codec.dim - 1) : codec.out[r][r] = codec.M[r][r]
        /\ Len(codec.v) = (codec.dim * (codec.dim + 1)) \div 2

\* A 3 x 3 matrix with nonzero diagonal and off-diagonal entries decoded.
C7_Witness ==
    /\ codec.pc = "decoded"
    /\ codec.dim = 3
    /\ codec.M[0][0] = 2
    /\ codec.M[2][1] = -1
    /\ codec.M[1][0] = 2
    /\ codec.out[1][2] = -1

\* The place of a cone kind in the block order of the stacked rows.
BlockRank(kind) ==
    CASE kind = "NonPos" -> 1
      [] kind = "Zero" -> 2
      [] kind = "SOC" -> 3
      [] kind = "ExpCone" -> 4
      [] kind = "PSD" -> 5

\* The order with the equality rows first.
BlockRankZeroFirst(kind) ==
    CASE kind = "Zero" -> 1
      [] kind = "NonPos" -> 2
      [] kind = "SOC" -> 3
      [] kind = "ExpCone" -> 4
      [] kind = "PSD" -> 5

\* C8 as stated: in the rows of h every Zero row precedes every NonPos row,
\* which precedes every SOC row, then every exponential row, then every PSD
\* row.
C8_RowOrderZeroFirst ==
    Applied =>
        \A i, j \in DOMAIN data.H :
            i < j => BlockRankZeroFirst(data.H[i].kind)
                        <= BlockRankZeroFirst(data.H[j].kind)

\* C8 (amended): the rows of (G, h) are laid out in the block order NonPos
\* (inequalities), Zero (equalities), SOC, exponential, PSD, whatever the
\* order of the constraints in the input list, and every row of every
\* constraint is in h.
C8_RowOrderInequalitiesFirst ==
    Applied =>
        /\ \A i, j \in DOMAIN data.H :
              i < j => BlockRank(data.H[i].kind) <= BlockRank(data.H[j].kind)
        /\ Len(data.H) = Sum([k \in DOMAIN problem.cons |-> Size(problem.cons[k])])
        /\ \A k \in DOMAIN problem.cons :
              \E i \in DOMAIN data.H : data.H[i].id = problem.cons[k].id

\* An equality constraint given before an inequality constraint: the
\* inequality rows come first in h.
C8_Witness ==
    /\ pc = "applied"
    /\ Len(problem.cons) = 2
    /\ problem.cons[1].kind = "Zero"
    /\ problem.cons[2].kind = "NonPos"
    /\ data.H[1].kind = "NonPos"
    /\ data.H[Len(data.H)].kind = "Zero"

\* The cone sizes and the exponential block lengths of the problem.
SocSizes ==
    LET soc == Filter(problem.cons, "SOC")
    IN  Flatten([k \in DOMAIN soc |-> soc[k].sizes])

ExpLengths ==
    LET ex == Filter(problem.cons, "ExpCone")
    IN  [k \in DOMAIN ex |-> 3 * ex[k].sizes[1]]

ConesRegistered ==
    pc \in {"integrality", "aij", "bar", "bounds", "optimize"} \/ result.kind = "task"

\* C9: after the cones are registered they partition the slack indices
\* n0 .. n - 1, n = n0 + sum(SOC sizes) + sum(EXP lengths): every such index
\* is in exactly one cone, the quadratic cones come first in declaration
\* order, each over its own size, the exponential cones follow as
\* consecutive triples, no cone holds an index below n0, the cursor ends at
\* n, and n scalar variables are declared whatever the PSD blocks.
C9_ConesPartitionSlacks ==
    ConesRegistered =>
        LET n0 == problem.n0
            q == SocSizes
            nexp == Sum(ExpLengths) \div 3
            n == n0 + Sum(q) + Sum(ExpLengths)
            cones == task.cones
        IN  /\ \A i \in n0..(n - 1) :
                  Cardinality({k \in DOMAIN cones : i \in Range(cones[k].idx)}) = 1
            /\ \A k \in DOMAIN cones : \A i \in Range(cones[k].idx) : n0 <= i /\ i < n
            /\ Len(cones) = Len(q) + nexp
            /\ \A k \in DOMAIN q :
                  /\ cones[k].type = "quad"
                  /\ cones[k].idx = Arange(n0 + Sum(SubSeq(q, 1, k - 1)),
                                           n0 + Sum(SubSeq(q, 1, k)))
            /\ \A k \in 1..nexp :
                  /\ cones[Len(q) + k].type = "pexp"
                  /\ cones[Len(q) + k].idx =
                        Arange(n0 + Sum(q) + 3 * (k - 1), n0 + Sum(q) + 3 * k)
            /\ task.running_idx = n
            /\ task.nvars = n

\* Two quadratic cones, an exponential cone and a PSD block registered.
C9_Witness ==
    /\ pc = "aij"
    /\ Len(SocSizes) = 2
    /\ Len(ExpLengths) = 1
    /\ Filter(problem.cons, "PSD") # <<>>
    /\ Len(task.cones) = 3
    /\ task.barvars # <<>>

CoefficientsSet == pc \in {"bar", "bounds", "optimize"} \/ result.kind = "task"

\* C10: the identity block sets a unit coefficient at (LEQ_DIM + EQ_DIM + k,
\* n0 + k) for every k below the number of SOC/EXP slacks and nothing else
\* in a column >= n0: every SOC or EXP row has exactly one slack
\* coefficient, every slack variable is in exactly one row, no inequality,
\* equality or PSD row has one, and the coefficients of G are in columns
\* below n0.
C10_IdentityBlockTiesSlacks ==
    CoefficientsSet =>
        LET n0 == problem.n0
            total == Sum(SocSizes) + Sum(ExpLengths)
            base == Sum([k \in DOMAIN problem.cons |->
                            IF problem.cons[k].kind \in {"NonPos", "Zero"}
                            THEN Size(problem.cons[k]) ELSE 0])
            slack == {e \in task.aij : e.c >= n0}
        IN  /\ \A k \in 0..(total - 1) :
                  [r |-> base + k, c |-> n0 + k, v |-> "1"] \in task.aij
            /\ \A e \in slack :
                  e.v = "1" /\ e.c - n0 = e.r - base /\ e.c - n0 \in 0..(total - 1)
            /\ \A e \in task.aij : e.v = "G" => e.c < n0
            /\ {<<e.r, e.c>> : e \in task.aij \ slack} = data.G
            /\ \A r \in 0..(Len(data.H) - 1) :
                  Cardinality({e \in slack : e.r = r}) =
                      IF data.H[r + 1].kind \in {"SOC", "ExpCone"} THEN 1 ELSE 0
            /\ \A c \in n0..(n0 + total - 1) :
                  Cardinality({e \in slack : e.c = c}) = 1
            /\ task.ncons = Len(data.H)

\* Equality rows followed by second-order rows with their slack coefficients.
C10_Witness ==
    /\ pc = "bar"
    /\ problem.n0 = 2
    /\ data.DIMS.f = 2
    /\ data.DIMS.q = <<3, 2>>
    /\ [r |-> 2, c |-> 2, v |-> "1"] \in task.aij
    /\ [r |-> 6, c |-> 6, v |-> "1"] \in task.aij
    /\ \E e \in task.aij : e.v = "G"

BarTermsSet == pc \in {"bounds", "optimize"} \/ result.kind = "task"

\* The dimensions of the PSD constraints of the problem, in input order.
PsdDims ==
    LET psd == Filter(problem.cons, "PSD")
    IN  [k \in DOMAIN psd |-> psd[k].sizes[1]]

\* The number of rows of the constraints that are not PSD.
NonPsdRows ==
    Sum([k \in DOMAIN problem.cons |->
            IF problem.cons[k].kind = "PSD" THEN 0 ELSE Size(problem.cons[k])])

\* The first row of PSD block j (0-based).
PsdStart(j) == NonPsdRows + Sum([k \in 1..j |-> PsdDims[k] * PsdDims[k]])

\* C11: PSD block j of dimension d has the d*d rows from LEQ_DIM + EQ_DIM +
\* (SOC/EXP slacks) + (sum of d'*d' of the earlier blocks) on; the row of the
\* pair (r, c) is start + r*d + c and has exactly one trace term, on matrix
\* variable j, with the single entry (max(r,c), min(r,c)) of weight 1.0 when
\* r = c and 0.5 otherwise; the row cursor ends at m = len(h): every PSD row
\* has exactly one term and no other row has any.
C11_PsdRowsGetOneTerm ==
    BarTermsSet =>
        /\ \A j \in 0..(Len(PsdDims) - 1) :
              LET d == PsdDims[j + 1]
              IN  \A r, c \in 0..(d - 1) :
                     {t \in task.barterms : t.i = PsdStart(j) + r * d + c} =
                        {[i |-> PsdStart(j) + r * d + c, j |-> j,
                          row |-> IF r >= c THEN r ELSE c,
                          col |-> IF r >= c THEN c ELSE r,
                          val |-> IF r = c THEN "1.0" ELSE "0.5"]}
        /\ \A i \in 0..(Len(data.H) - 1) :
              Cardinality({t \in task.barterms : t.i = i}) =
                  IF data.H[i + 1].kind = "PSD" THEN 1 ELSE 0
        /\ \A t \in task.barterms :
              /\ t.i \in 0..(Len(data.H) - 1)
              /\ data.H[t.i + 1].id = Filter(problem.cons, "PSD")[t.j + 1].id
              /\ data.H[t.i + 1].local = t.i - PsdStart(t.j)
        /\ task.bar_i = Len(data.H)
        /\ task.barvars = PsdDims

\* Two PSD blocks of dimension 2: the row of (1, 0) of the second block.
C11_Witness ==
    /\ pc = "bounds"
    /\ data.DIMS.s = <<2, 2>>
    /\ [i |-> 6, j |-> 1, row |-> 1, col |-> 0, val |-> "0.5"] \in task.barterms
    /\ [i |-> 7, j |-> 1, row |-> 1, col |-> 1, val |-> "1.0"] \in task.barterms
    /\ task.bar_i = 8

BoundsSet == pc = "optimize" \/ result.kind = "task"

\* C12: the bound list has one entry per row of h; the row of an inequality
\* (NonPos) constraint is bounded above by its entry of h, the row of an
\* equality (Zero) constraint is fixed at its entry of h, and every other
\* row (second-order, exponential, PSD) is fixed at its entry of h too.
C12_RowBoundsByKind ==
    BoundsSet =>
        /\ Len(task.bounds) = Len(data.H)
        /\ Len(task.bounds) =
              Sum([k \in DOMAIN problem.cons |-> Size(problem.cons[k])])
        /\ task.ncons = Len(task.bounds)
        /\ \A k \in DOMAIN task.bounds :
              /\ task.bounds[k].row = data.H[k]
              /\ task.bounds[k].key =
                    IF data.H[k].kind = "NonPos" THEN "up" ELSE "fx"

\* An equality constraint given before an inequality constraint: the first
\* row is the inequality's and bounded above, the next rows are fixed.
C12_Witness ==
    /\ pc = "optimize"
    /\ Len(problem.cons) = 2
    /\ problem.cons[1].kind = "Zero"
    /\ problem.cons[2].kind = "NonPos"
    /\ Len(task.bounds) = 3
    /\ task.bounds[1].key = "up"
    /\ task.bounds[2].key = "fx"
    /\ task.bounds[2].row.kind = "Zero"

\* The rows of h (0-based) of the constraint with this id, in order.
FirstRow(id) ==
    CHOOSE i \in 0..(Len(data.H) - 1) :
        data.H[i + 1].id = id /\ \A h \in 0..(i - 1) : data.H[h + 1].id # id

\* The slack column the identity block ties to row r.
SlackCol(r) ==
    CHOOSE c \in problem.n0..(task.nvars - 1) :
        [r |-> r, c |-> c, v |-> "1"] \in task.aij

\* The solver positions the Encoder and the Bridge assign to a constraint.
AssignedPositions(con) ==
    LET first == FirstRow(con.id)
    IN  [k \in 1..Size(con) |->
            CASE con.kind = "NonPos" -> Pos("suc", first + k - 1)
              [] con.kind = "Zero" -> Pos("y", first + k - 1)
              [] con.kind \in {"SOC", "ExpCone"} -> Pos("snx", SlackCol(first + k - 1))]

\* The index (from 1) of the entry (r, c), r >= c, in a half-vector that
\* lists the lower triangle of a dim x dim matrix column by column.
HalfIndex(r, c, dim) == c * dim - ((c * (c - 1)) \div 2) + (r - c) + 1

\* C13: when a solution is present the dual stored under a constraint's id
\* is read from the positions assigned to that constraint: the upper-bound
\* duals of its own rows inside [0, LEQ_DIM) for an inequality, the row
\* duals of its own rows inside [LEQ_DIM, LEQ_DIM + EQ_DIM) for an equality,
\* the conic duals of the slack columns the identity block ties to its rows
\* for a second-order or exponential constraint (second-order before
\* exponential), the dual of its own matrix variable for a PSD constraint;
\* the mapping has one entry per constraint and no two constraints share a
\* position.
C13_DualsReadFromAssignedPositions ==
    (pc = "inverted" /\ solution.sol.dual_vars.present) =>
        LET d == solution.sol.dual_vars.d
            cons == problem.cons
            l == data.DIMS.l
            f == data.DIMS.f
        IN  /\ DOMAIN d = {cons[k].id : k \in DOMAIN cons}
            /\ Cardinality(DOMAIN d) = Len(cons)
            /\ \A k \in DOMAIN cons :
                  LET con == cons[k]
                  IN  IF con.kind = "PSD"
                      THEN /\ d[con.id].shape = "matrix"
                           /\ \A t \in task.barterms :
                                 data.H[t.i + 1].id = con.id =>
                                    d[con.id].v[t.row][t.col] =
                                       100 * (t.j + 1)
                                       + HalfIndex(t.row, t.col, con.sizes[1])
                      ELSE /\ d[con.id].v = AssignedPositions(con)
                           /\ d[con.id].shape = "scalar" <=> Size(con) = 1
                           /\ \A i \in DOMAIN d[con.id].v :
                                 LET pos == d[con.id].v[i].pos
                                 IN  CASE con.kind = "NonPos" -> 0 <= pos /\ pos < l
                                       [] con.kind = "Zero" -> l <= pos /\ pos < l + f
                                       [] con.kind = "SOC" ->
                                            /\ problem.n0 <= pos
                                            /\ pos < problem.n0 + Sum(data.DIMS.q)
                                       [] con.kind = "ExpCone" ->
                                            /\ problem.n0 + Sum(data.DIMS.q) <= pos
                                            /\ pos < task.nvars
            /\ \A k1, k2 \in DOMAIN cons :
                  (k1 # k2 /\ cons[k1].kind # "PSD" /\ cons[k2].kind # "PSD")
                     => Range(d[cons[k1].id].v) \cap Range(d[cons[k2].id].v) = {}

\* An equality constraint of two rows and an inequality constraint of one
\* row decoded: the equality duals come from rows 1 and 2, the inequality
\* dual, a scalar, from row 0.
C13_Witness ==
    /\ pc = "inverted"
    /\ solution.sol.dual_vars.present
    /\ Len(problem.cons) = 2
    /\ problem.cons[1].kind = "Zero"
    /\ problem.cons[2].kind = "NonPos"
    /\ solution.sol.dual_vars.d[problem.cons[1].id].v = <<Pos("y", 1), Pos("y", 2)>>
    /\ solution.sol.dual_vars.d[problem.cons[2].id] =
          [shape |-> "scalar", v |-> <<Pos("suc", 0)>>]

\* invert has read the task that solve_via_data returned.
TaskRead == pc \in {"inverted", "invert_raised"} /\ result.kind = "task"

\* C14: each read that invert performs on the task returned by
\* solve_via_data (solution status, primal objective, primal slice, the
\* three dual slices, the PSD duals) happens while the Env and the Task that
\* produced it are still acquired.  invert leaves the session as it found
\* it, so the session at the end of invert is the session of its reads.
C14_ReadsWhileSessionAcquired ==
    TaskRead => (session.task = "open" /\ session.env = "open")

====
